---------------------------- MODULE Spec2Model ----------------------------
(***************************************************************************)
(* A model of translate/data_utils.py: the vocabulary loader, the          *)
(* tokenizer, the filename resolver, the BLEU scorer and the embedding     *)
(* loader.  Every function is a call frame over a file system: a call      *)
(* starts with its arguments bound (pc = "call"), runs the statements of   *)
(* the function and ends with a return value or a raised exception.        *)
(*                                                                         *)
(* Python strings are sequences of one-character strings; Python lists are *)
(* sequences, indexed from 0 in the code and from 1 here (list[i] in the   *)
(* code is list[i + 1] in the model); a dict is a function on its keys.    *)
(***************************************************************************)
EXTENDS Integers, Sequences, FiniteSets, TLC

VARIABLES
  call,   \* the function being called
  args,   \* its arguments
  fs,     \* the file system (and, for bleu_score, the external script)
  pc,     \* the position of the call
  frame,  \* the local variables of the running function
  io,     \* the file and process operations performed so far, in order
  ret     \* the outcome: pending, a returned value or a raised exception

vars == <<call, args, fs, pc, frame, io, ret>>

(***************************************************************************)
(* Bounds of the model.                                                    *)
(***************************************************************************)
MaxFileLen == 5

MaxSentenceLen == 4

MaxSrcExt == 2

MaxRefs == 2

MaxOutputLen == 4

(***************************************************************************)
(* Python values and helpers.                                              *)
(***************************************************************************)
PAD_ID == 0

GO_ID == 1

EOS_ID == 2

UNK_ID == 3

Whitespace == {" ", "\n", "\t"}

Pending == [kind |-> "pending", exc |-> "", value |-> <<>>]

Return(v) == [kind |-> "return", exc |-> "", value |-> v]

Raise(e) == [kind |-> "raise", exc |-> e, value |-> <<>>]

\* all sequences over S of length at most n, and those that are not empty
SeqsUpTo(S, n) == UNION {[1..k -> S] : k \in 0..n}

NonEmptySeqsUpTo(S, n) == UNION {[1..k -> S] : k \in 1..n}

EmptyDict == [k \in {} |-> 0]

\* d[k] = v
DictSet(d, k, v) == [x \in (DOMAIN d) \cup {k} |-> IF x = k THEN v ELSE d[x]]

\* a variant of enumerate that counts from 1
EnumerateFromOne(list) == [j \in 1..Len(list) |-> <<j, list[j]>>]

\* enumerate(list): the pairs (index, item), indices from 0
Enumerate(list) == [j \in 1..Len(list) |-> <<j - 1, list[j]>>]

\* str.strip(): leading and trailing whitespace removed
RECURSIVE LStrip(_)
LStrip(s) ==
  IF s # <<>> /\ Head(s) \in Whitespace THEN LStrip(Tail(s)) ELSE s

RECURSIVE RStrip(_)
RStrip(s) ==
  IF s # <<>> /\ s[Len(s)] \in Whitespace
  THEN RStrip(SubSeq(s, 1, Len(s) - 1))
  ELSE s

Strip(s) == LStrip(RStrip(s))

\* f.readlines(): the text cut after every newline, the newlines kept
RECURSIVE ReadLinesFrom(_, _)
ReadLinesFrom(text, cur) ==
  IF text = <<>>
  THEN IF cur = <<>> THEN <<>> ELSE <<cur>>
  ELSE IF Head(text) = "\n"
       THEN <<Append(cur, "\n")>> \o ReadLinesFrom(Tail(text), <<>>)
       ELSE ReadLinesFrom(Tail(text), Append(cur, Head(text)))

ReadLines(text) == ReadLinesFrom(text, <<>>)

(***************************************************************************)
(* initialize_vocabulary                                                   *)
(***************************************************************************)
\* a variant of dict(pairs) in which the first pair of a key stays
RECURSIVE DictFirstWins(_)
DictFirstWins(pairs) ==
  IF pairs = <<>> THEN EmptyDict
  ELSE LET rest == DictFirstWins(SubSeq(pairs, 1, Len(pairs) - 1))
           last == pairs[Len(pairs)]
       IN IF last[2] \in DOMAIN rest THEN rest ELSE DictSet(rest, last[2], last[1])

\* dict(pairs) for pairs (index, token) turned around: a later pair of a
\* token overwrites an earlier one
RECURSIVE DictOfPairs(_)
DictOfPairs(pairs) ==
  IF pairs = <<>> THEN EmptyDict
  ELSE LET rest == DictOfPairs(SubSeq(pairs, 1, Len(pairs) - 1))
           last == pairs[Len(pairs)]
       IN DictSet(rest, last[2], last[1])

\* rev_vocab = [line.strip() for line in rev_vocab]
RevVocabOf(text) ==
  LET lines == ReadLines(text) IN [j \in 1..Len(lines) |-> Strip(lines[j])]

\* vocab = dict([(x, y) for (y, x) in enumerate(rev_vocab)])
VocabOf(rev_vocab) == DictOfPairs(Enumerate(rev_vocab))

FileExists(path) == path \in DOMAIN fs /\ fs[path].exists

\* a variant that answers a missing file with an empty vocabulary
VocabNeverRaises(path) ==
  IF FileExists(path)
  THEN LET rev_vocab == RevVocabOf(fs[path].text)
       IN Return([vocab |-> VocabOf(rev_vocab), rev_vocab |-> rev_vocab])
  ELSE Return([vocab |-> EmptyDict, rev_vocab |-> <<>>])

\* the outcome of initialize_vocabulary(path) on the file system
initialize_vocabulary(path) ==
  IF FileExists(path)
  THEN LET rev_vocab == RevVocabOf(fs[path].text)
       IN Return([vocab |-> VocabOf(rev_vocab), rev_vocab |-> rev_vocab])
  ELSE Raise("ValueError")

\* its file operations: the existence test, then (only if the file exists)
\* the read
VocabIO(path) ==
  IF FileExists(path)
  THEN <<[op |-> "exists", path |-> path], [op |-> "read", path |-> path]>>
  ELSE <<[op |-> "exists", path |-> path]>>

VocabPath == <<"v">>

FileChars == {"a", "b", " ", "\n"}

\* a path with no file; a text file; an embedding file, read as its header
\* dimension and its rows (a word and its values)
Missing == [exists |-> FALSE, text |-> <<>>, dim |-> 0, rows |-> <<>>]

TextFile(t) == [exists |-> TRUE, text |-> t, dim |-> 0, rows |-> <<>>]

EmbeddingFile(n, rows) == [exists |-> TRUE, text |-> <<>>, dim |-> n, rows |-> rows]

VocabFiles == {Missing} \cup {TextFile(t) : t \in SeqsUpTo(FileChars, MaxFileLen)}

InitVocab ==
  /\ call = "initialize_vocabulary"
  /\ args = [vocabulary_path |-> VocabPath]
  /\ fs \in [{VocabPath} -> VocabFiles]
  /\ pc = "call"
  /\ frame = <<>>
  /\ io = <<>>
  /\ ret = Pending

InitializeVocabulary ==
  /\ call = "initialize_vocabulary"
  /\ pc = "call"
  /\ ret' = initialize_vocabulary(args.vocabulary_path)
  /\ io' = io \o VocabIO(args.vocabulary_path)
  /\ pc' = "done"
  /\ UNCHANGED <<call, args, fs, frame>>

NextVocab == InitializeVocabulary

SpecVocab == InitVocab /\ [][NextVocab]_vars


(***************************************************************************)
(* Properties of initialize_vocabulary.                                    *)
(***************************************************************************)
VocabText == fs[VocabPath].text

VocabReturned ==
  call = "initialize_vocabulary" /\ pc = "done" /\ ret.kind = "return"

\* the number of lines of a text: one per newline, and one more for a last
\* line that no newline ends
NumLines(text) ==
  Cardinality({i \in 1..Len(text) : text[i] = "\n"})
    + (IF text # <<>> /\ text[Len(text)] # "\n" THEN 1 ELSE 0)

\* the indices (from 0) at which token t stands in the index->token list
IndicesOf(rev_vocab, t) == {i \in 0..(Len(rev_vocab) - 1) : rev_vocab[i + 1] = t}

SetMax(S) == CHOOSE m \in S : \A x \in S : x <= m

\* C1: for a vocabulary file of K lines the token->index mapping has at most
\* K entries, the index->token list exactly K, and every token that stands
\* on exactly one line i round-trips: vocab[rev_vocab[i]] = i and
\* rev_vocab[vocab[t]] = t.
C1_VocabularyRoundTrip ==
  VocabReturned =>
    LET vocab == ret.value.vocab
        rev_vocab == ret.value.rev_vocab
        K == NumLines(VocabText)
    IN /\ Cardinality(DOMAIN vocab) <= K
       /\ Len(rev_vocab) = K
       /\ \A i \in 0..(K - 1) :
            LET t == rev_vocab[i + 1]
            IN IndicesOf(rev_vocab, t) = {i} =>
                 /\ t \in DOMAIN vocab
                 /\ vocab[rev_vocab[i + 1]] = i
                 /\ rev_vocab[vocab[t] + 1] = t

\* a file of three lines whose second token stands on one line only, the
\* first being repeated
C1_Witness ==
  /\ VocabReturned
  /\ Len(ret.value.rev_vocab) = 3
  /\ IndicesOf(ret.value.rev_vocab, ret.value.rev_vocab[2]) = {1}
  /\ IndicesOf(ret.value.rev_vocab, ret.value.rev_vocab[1]) = {0, 2}
  /\ ret.value.vocab[ret.value.rev_vocab[2]] = 1

\* C2: when the vocabulary path does not exist the call raises ValueError,
\* returns no (mapping, list) pair and does not read the file.
C2_MissingVocabularyRaises ==
  (call = "initialize_vocabulary" /\ pc = "done"
     /\ ~FileExists(args.vocabulary_path)) =>
    /\ ret.kind = "raise"
    /\ ret.exc = "ValueError"
    /\ ret.value = <<>>
    /\ \A k \in 1..Len(io) : io[k].op # "read"

C2_Witness ==
  /\ call = "initialize_vocabulary"
  /\ pc = "done"
  /\ ~FileExists(args.vocabulary_path)
  /\ ret.kind = "raise"
  /\ io = <<[op |-> "exists", path |-> args.vocabulary_path]>>

\* C9: a token that stands on several lines is mapped to the index of its
\* last occurrence, and the index->token list keeps one entry per line,
\* the earlier duplicates included.
C9_DuplicateTokenLastWins ==
  VocabReturned =>
    LET vocab == ret.value.vocab
        rev_vocab == ret.value.rev_vocab
    IN /\ Len(rev_vocab) = NumLines(VocabText)
       /\ \A i \in 0..(Len(rev_vocab) - 1) :
            LET t == rev_vocab[i + 1]
            IN Cardinality(IndicesOf(rev_vocab, t)) > 1 =>
                 /\ t \in DOMAIN vocab
                 /\ vocab[t] = SetMax(IndicesOf(rev_vocab, t))

\* the same token on the first and the last of three lines
C9_Witness ==
  /\ VocabReturned
  /\ Len(ret.value.rev_vocab) = 3
  /\ ret.value.rev_vocab[1] = ret.value.rev_vocab[3]
  /\ ret.value.rev_vocab[1] # ret.value.rev_vocab[2]
  /\ ret.value.vocab[ret.value.rev_vocab[1]] = 2

(***************************************************************************)
(* sentence_to_token_ids                                                   *)
(***************************************************************************)
\* a variant, sentence.split(" "): cut at every single blank, empty pieces
\* kept
RECURSIVE SplitOnBlankFrom(_, _)
SplitOnBlankFrom(s, cur) ==
  IF s = <<>> THEN <<cur>>
  ELSE IF Head(s) = " "
       THEN <<cur>> \o SplitOnBlankFrom(Tail(s), <<>>)
       ELSE SplitOnBlankFrom(Tail(s), Append(cur, Head(s)))

SplitOnBlank(s) == SplitOnBlankFrom(s, <<>>)

\* sentence.split(): cut at runs of whitespace, no empty pieces
RECURSIVE SplitFrom(_, _)
SplitFrom(s, cur) ==
  IF s = <<>>
  THEN IF cur = <<>> THEN <<>> ELSE <<cur>>
  ELSE IF Head(s) \in Whitespace
       THEN (IF cur = <<>> THEN <<>> ELSE <<cur>>) \o SplitFrom(Tail(s), <<>>)
       ELSE SplitFrom(Tail(s), Append(cur, Head(s)))

Split(s) == SplitFrom(s, <<>>)

\* vocabulary.get(w, default)
DictGet(d, k, default) == IF k \in DOMAIN d THEN d[k] ELSE default

\* [vocabulary.get(w, UNK_ID) for w in sentence.split()]
sentence_to_token_ids(sentence, vocabulary) ==
  LET words == Split(sentence)
  IN [j \in 1..Len(words) |-> DictGet(vocabulary, words[j], UNK_ID)]

SentenceChars == {"a", "b", " ", "\n"}

TokenKeys == {<<"a">>, <<"a", "b">>}

IdValues == {0, 3, 4}

Vocabularies == UNION {[S -> IdValues] : S \in SUBSET TokenKeys}

InitTokens ==
  /\ call = "sentence_to_token_ids"
  /\ args \in [sentence : SeqsUpTo(SentenceChars, MaxSentenceLen),
               vocabulary : Vocabularies]
  /\ fs = <<>>
  /\ pc = "call"
  /\ frame = <<>>
  /\ io = <<>>
  /\ ret = Pending

SentenceToTokenIds ==
  /\ call = "sentence_to_token_ids"
  /\ pc = "call"
  /\ ret' = Return(sentence_to_token_ids(args.sentence, args.vocabulary))
  /\ pc' = "done"
  /\ UNCHANGED <<call, args, fs, frame, io>>

NextTokens == SentenceToTokenIds

SpecTokens == InitTokens /\ [][NextTokens]_vars

(***************************************************************************)
(* Properties of sentence_to_token_ids.                                    *)
(***************************************************************************)
\* the positions at which a whitespace-separated token begins
TokenStarts(s) ==
  {i \in 1..Len(s) : s[i] \notin Whitespace /\ (i = 1 \/ s[i - 1] \in Whitespace)}

NthStart(s, j) ==
  CHOOSE i \in TokenStarts(s) : Cardinality({k \in TokenStarts(s) : k < i}) = j - 1

TokenEnd(s, i) ==
  CHOOSE e \in i..Len(s) :
    /\ \A k \in i..e : s[k] \notin Whitespace
    /\ e = Len(s) \/ s[e + 1] \in Whitespace

NthToken(s, j) == SubSeq(s, NthStart(s, j), TokenEnd(s, NthStart(s, j)))

DictValues(d) == {d[k] : k \in DOMAIN d}

\* C3: the result has one id per whitespace-separated token of the sentence;
\* the j-th id is the mapping's index of the j-th token when the mapping has
\* it and UNK_ID (3) otherwise, so every id is an index of the vocabulary or
\* the unknown sentinel.
C3_TokenIds ==
  (call = "sentence_to_token_ids" /\ pc = "done") =>
    /\ ret.kind = "return"
    /\ UNK_ID = 3
    /\ Len(ret.value) = Cardinality(TokenStarts(args.sentence))
    /\ \A j \in 1..Len(ret.value) :
         LET w == NthToken(args.sentence, j)
         IN /\ w \in DOMAIN args.vocabulary => ret.value[j] = args.vocabulary[w]
            /\ w \notin DOMAIN args.vocabulary => ret.value[j] = UNK_ID
            /\ ret.value[j] \in DictValues(args.vocabulary) \cup {UNK_ID}

\* two tokens parted by two blanks: the first in the mapping, the second not
C3_Witness ==
  /\ call = "sentence_to_token_ids"
  /\ pc = "done"
  /\ args.sentence = <<"a", " ", " ", "b">>
  /\ <<"a">> \in DOMAIN args.vocabulary
  /\ args.vocabulary[<<"a">>] = 4
  /\ ret.value = <<4, UNK_ID>>

(***************************************************************************)
(* get_filenames                                                           *)
(***************************************************************************)
Digits == <<"0", "1", "2", "3", "4", "5", "6", "7", "8", "9">>

\* "{}".format(n) for an integer n >= 0: its decimal digits
RECURSIVE IntToStr(_)
IntToStr(n) ==
  IF n < 10 THEN <<Digits[n + 1]>>
  ELSE IntToStr(n \div 10) \o <<Digits[(n % 10) + 1]>>

\* os.path.join(a, b): b alone when it is absolute, else a and b with one
\* separator between them unless a is empty or already ends with one
PathJoin(a, b) ==
  IF b # <<>> /\ Head(b) = "/" THEN b
  ELSE IF a = <<>> \/ a[Len(a)] = "/" THEN a \o b
  ELSE a \o <<"/">> \o b

\* a value that is one string, and a value that is a list of strings
Str(s) == [type |-> "str", items |-> <<s>>]

List(l) == [type |-> "list", items |-> l]

\* the parameter multi_task: False when the caller leaves it out
MultiTaskParam(given) == IF given = "omitted" THEN "False" ELSE given

\* the test `multi_task is not None`
TakesMultiTaskBranch(multi_task) == multi_task # "None"

get_filenames(a) ==
  LET multi_task == MultiTaskParam(a.multi_task)
      src_ext == a.src_ext
      train_path == PathJoin(a.data_dir, a.train_prefix)
      dev_path == PathJoin(a.data_dir, a.dev_prefix)
      \* "{}.{}".format(path, ext)
      Dot(path, ext) == path \o <<".">> \o ext
      \* "{}.ids{}.{}".format(path, size, ext)
      Ids(path, size, ext) ==
        path \o <<".", "i", "d", "s">> \o IntToStr(size) \o <<".">> \o ext
      \* "vocab{}.{}".format(size, ext)
      VocabName(size, ext) ==
        <<"v", "o", "c", "a", "b">> \o IntToStr(size) \o <<".">> \o ext
      each(F(_)) == [j \in 1..Len(src_ext) |-> F(src_ext[j])]
      src_train(ext) == Dot(train_path, ext)
      src_train_ids(ext) == Ids(train_path, a.src_vocab_size, ext)
      trg_train_multi(ext) == Dot(Dot(train_path, ext), a.trg_ext)
      trg_train_ids_multi(ext) ==
        Ids(train_path, a.trg_vocab_size, ext) \o <<".">> \o a.trg_ext
      src_dev(ext) == Dot(dev_path, ext)
      src_dev_ids(ext) == Ids(dev_path, a.src_vocab_size, ext)
      src_vocab(ext) == PathJoin(a.data_dir, VocabName(a.src_vocab_size, ext))
  IN [src_train |-> List(each(src_train)),
      trg_train |-> IF TakesMultiTaskBranch(multi_task)
                    THEN List(each(trg_train_multi))
                    ELSE Str(Dot(train_path, a.trg_ext)),
      src_dev |-> List(each(src_dev)),
      trg_dev |-> Str(Dot(dev_path, a.trg_ext)),
      src_vocab |-> List(each(src_vocab)),
      trg_vocab |-> Str(PathJoin(a.data_dir, VocabName(a.trg_vocab_size, a.trg_ext))),
      src_train_ids |-> List(each(src_train_ids)),
      trg_train_ids |-> IF TakesMultiTaskBranch(multi_task)
                        THEN List(each(trg_train_ids_multi))
                        ELSE Str(Ids(train_path, a.trg_vocab_size, a.trg_ext)),
      src_dev_ids |-> List(each(src_dev_ids)),
      trg_dev_ids |-> Str(Ids(dev_path, a.trg_vocab_size, a.trg_ext))]

FilesFields ==
  {"src_train", "trg_train", "src_dev", "trg_dev", "src_vocab", "trg_vocab",
   "src_train_ids", "trg_train_ids", "src_dev_ids", "trg_dev_ids"}

SrcExts == {<<"f", "r">>, <<"d", "e">>}

TrgExts == {<<"e", "n">>}

DataDirs == {<<>>, <<"d">>, <<"d", "/">>}

TrainPrefixes == {<<"t">>, <<"/", "t">>}

DevPrefixes == {<<"v">>}

SrcVocabSizes == {9, 10}

TrgVocabSizes == {10, 205}

MultiTaskArgs == {"omitted", "None", "False", "True"}

InitFiles ==
  /\ call = "get_filenames"
  /\ args \in [data_dir : DataDirs,
               src_ext : NonEmptySeqsUpTo(SrcExts, MaxSrcExt),
               trg_ext : TrgExts,
               src_vocab_size : SrcVocabSizes,
               trg_vocab_size : TrgVocabSizes,
               train_prefix : TrainPrefixes,
               dev_prefix : DevPrefixes,
               multi_task : MultiTaskArgs]
  /\ fs = <<>>
  /\ pc = "call"
  /\ frame = <<>>
  /\ io = <<>>
  /\ ret = Pending

GetFilenames ==
  /\ call = "get_filenames"
  /\ pc = "call"
  /\ ret' = Return(get_filenames(args))
  /\ pc' = "done"
  /\ UNCHANGED <<call, args, fs, frame, io>>

NextFiles == GetFilenames

SpecFiles == InitFiles /\ [][NextFiles]_vars

(***************************************************************************)
(* Properties of get_filenames.                                            *)
(***************************************************************************)
\* {prefix}: the train prefix under the data directory
TrainPrefixPath == PathJoin(args.data_dir, args.train_prefix)

\* C4: the multi-task flag changes only the target-file fields: with the
\* flag set trg_train and trg_train_ids hold one path per source extension,
\* with the flag not set (its default, False) they hold the single shared
\* paths {prefix}.{trg_ext} and {prefix}.ids{trg_vocab_size}.{trg_ext}; every
\* other field is the same in the two calls.
C4_MultiTaskChangesOnlyTargets ==
  (call = "get_filenames" /\ pc = "done") =>
    LET flag == MultiTaskParam(args.multi_task)
        other == get_filenames([args EXCEPT !.multi_task =
                                  IF flag = "True" THEN "False" ELSE "True"])
    IN /\ flag = "True" =>
            /\ ret.value.trg_train.type = "list"
            /\ ret.value.trg_train_ids.type = "list"
            /\ Len(ret.value.trg_train.items) = Len(args.src_ext)
            /\ Len(ret.value.trg_train_ids.items) = Len(args.src_ext)
       /\ flag = "False" =>
            /\ ret.value.trg_train =
                 Str(TrainPrefixPath \o <<".">> \o args.trg_ext)
            /\ ret.value.trg_train_ids =
                 Str(TrainPrefixPath \o <<".", "i", "d", "s">>
                       \o IntToStr(args.trg_vocab_size) \o <<".">> \o args.trg_ext)
       /\ flag \in {"True", "False"} =>
            \A f \in FilesFields \ {"trg_train", "trg_train_ids"} :
              ret.value[f] = other[f]

(***************************************************************************)
(* bleu_score                                                              *)
(*                                                                         *)
(* The script's standard output is a sequence of chunks of text: the       *)
(* literals of the pattern, number literals, a comma, and other text       *)
(* without a comma.                                                        *)
(***************************************************************************)
\* the chunks [^,] cannot match a part of
HasComma(chunk) == chunk \in {",", ", ratio="}

\* the end of the longest run of comma-free chunks that starts at i
\* (i - 1 when the run is empty)
RECURSIVE RunEnd(_, _)
RunEnd(out, i) ==
  IF i <= Len(out) /\ ~HasComma(out[i]) THEN RunEnd(out, i + 1) ELSE i - 1

\* whether BP=([^,]*), ratio= matches from position p on: the group is
\* greedy and a comma-free run can only end before a chunk with a comma
MatchesFromBP(out, p) ==
  /\ p <= Len(out)
  /\ out[p] = "BP="
  /\ RunEnd(out, p + 1) + 1 <= Len(out)
  /\ out[RunEnd(out, p + 1) + 1] = ", ratio="

\* re.match(r'BLEU = ([^,]*).*BP=([^,]*), ratio=([^,]*)', output): anchored
\* at the start; the first group and then .* are greedy, each gives back
\* only as far as the rest of the pattern needs
ReMatch(out) ==
  LET ends == {e \in 1..RunEnd(out, 2) :
                 \E p \in (e + 1)..Len(out) : MatchesFromBP(out, p)}
  IN IF out = <<>> \/ out[1] # "BLEU = " \/ ends = {}
     THEN [matched |-> FALSE, groups |-> <<>>]
     ELSE LET e1 == SetMax(ends)
              p == SetMax({q \in (e1 + 1)..Len(out) : MatchesFromBP(out, q)})
              e2 == RunEnd(out, p + 1)
          IN [matched |-> TRUE,
              groups |-> <<SubSeq(out, 2, e1),
                           SubSeq(out, p + 1, e2),
                           SubSeq(out, e2 + 2, RunEnd(out, e2 + 2))>>]

\* the number literals of the outputs, in hundredths
FloatOf == [lit \in {"24.5", "0.98", "1.01"} |->
              CASE lit = "24.5" -> 2450 [] lit = "0.98" -> 98 [] lit = "1.01" -> 101]

BlankChunks == {" "}

RECURSIVE TrimBlanks(_)
TrimBlanks(g) ==
  IF g # <<>> /\ Head(g) \in BlankChunks THEN TrimBlanks(Tail(g))
  ELSE IF g # <<>> /\ g[Len(g)] \in BlankChunks
       THEN TrimBlanks(SubSeq(g, 1, Len(g) - 1))
       ELSE g

\* float(text): blanks around the text ignored, then one number literal
IsFloat(g) == Len(TrimBlanks(g)) = 1 /\ TrimBlanks(g)[1] \in DOMAIN FloatOf

Float(g) == FloatOf[TrimBlanks(g)[1]]

\* lines 136-139: the match, the three floats, the named triple
ParseBleu(out) ==
  LET m == ReMatch(out)
  IN IF ~m.matched THEN Raise("AttributeError")
     ELSE IF \E i \in 1..3 : ~IsFloat(m.groups[i]) THEN Raise("ValueError")
     ELSE Return([score |-> Float(m.groups[1]),
                  penalty |-> Float(m.groups[2]),
                  ratio |-> Float(m.groups[3])])

\* '\n'.join(list)
RECURSIVE Join(_)
Join(list) ==
  IF list = <<>> THEN <<>>
  ELSE IF Len(list) = 1 THEN list[1]
  ELSE list[1] \o <<"\n">> \o Join(Tail(list))

TempPath == <<"t", "m", "p">>

NoTemp == [exists |-> FALSE, open |-> FALSE, text |-> <<>>]

\* tempfile.NamedTemporaryFile(delete=False): a new, empty, open file
NewTemp == [exists |-> TRUE, open |-> TRUE, text |-> <<>>]

\* a variant: the file created with delete=True, which closing removes
CloseTempDeleting(f) == [f EXCEPT !.open = FALSE, !.exists = FALSE]

\* the end of the with block: the file is closed and, with delete=False, kept
CloseTemp(f) == [f EXCEPT !.open = FALSE]

OutChunks == {"BLEU = ", "24.5", ",", "x", "BP=", ", ratio="}

CannedOutputs ==
  {<<"BLEU = ", "24.5", ",", " 100/100", ",", " ", "BP=", "0.98", ", ratio=", "1.01">>,
   <<"BLEU = ", "24.5", "BP=", "0.98", ", ratio=", "1.01", ",", "x">>,
   <<"BLEU = ", "24.5", ",", "BP=", "x", ", ratio=", "1.01">>}

Outputs == SeqsUpTo(OutChunks, MaxOutputLen) \cup CannedOutputs

RefStrings == {<<"r">>, <<"q", " ", "r">>}

HypothesisLists == {<<>>, <<<<"h">>, <<"g">>>>}

InitBleu ==
  /\ call = "bleu_score"
  /\ args \in [bleu_script : {<<"s">>},
               hypotheses : HypothesisLists,
               references : SeqsUpTo(RefStrings, MaxRefs)]
  /\ fs \in [temp : {NoTemp}, script_runs : BOOLEAN]
  /\ pc = "call"
  /\ frame = [k |-> 0, stdin |-> <<>>, output |-> <<>>]
  /\ io = <<>>
  /\ ret = Pending

Event(op, path) == [op |-> op, path |-> path]

\* line 127: the temporary file is created and opened
BleuOpenTemp ==
  /\ call = "bleu_score"
  /\ pc = "call"
  /\ fs' = [fs EXCEPT !.temp = NewTemp]
  /\ io' = Append(io, Event("mkstemp", TempPath))
  /\ pc' = "write"
  /\ UNCHANGED <<call, args, frame, ret>>

\* lines 128-129: one reference and a newline
BleuWriteRef ==
  /\ call = "bleu_score"
  /\ pc = "write"
  /\ frame.k < Len(args.references)
  /\ fs' = [fs EXCEPT !.temp.text = @ \o args.references[frame.k + 1] \o <<"\n">>]
  /\ frame' = [frame EXCEPT !.k = @ + 1]
  /\ io' = Append(io, Event("write", TempPath))
  /\ UNCHANGED <<call, args, pc, ret>>

\* the end of the with block
BleuCloseTemp ==
  /\ call = "bleu_score"
  /\ pc = "write"
  /\ frame.k = Len(args.references)
  /\ fs' = [fs EXCEPT !.temp = CloseTemp(@)]
  /\ io' = Append(io, Event("close", TempPath))
  /\ pc' = "popen"
  /\ UNCHANGED <<call, args, frame, ret>>

\* lines 131-132: the script is started, or Popen raises
BleuPopen ==
  /\ call = "bleu_score"
  /\ pc = "popen"
  /\ \/ /\ fs.script_runs
        /\ io' = Append(io, Event("popen", args.bleu_script))
        /\ pc' = "communicate"
        /\ ret' = ret
     \/ /\ ~fs.script_runs
        /\ io' = io
        /\ pc' = "done"
        /\ ret' = Raise("OSError")
  /\ UNCHANGED <<call, args, fs, frame>>

\* line 134: the hypotheses go to the script, its output comes back
BleuCommunicate ==
  /\ call = "bleu_score"
  /\ pc = "communicate"
  /\ \E out \in Outputs :
       frame' = [frame EXCEPT !.stdin = Join(args.hypotheses), !.output = out]
  /\ io' = Append(io, Event("communicate", args.bleu_script))
  /\ pc' = "parse"
  /\ UNCHANGED <<call, args, fs, ret>>

\* lines 136-139
BleuParse ==
  /\ call = "bleu_score"
  /\ pc = "parse"
  /\ ret' = ParseBleu(frame.output)
  /\ pc' = "done"
  /\ UNCHANGED <<call, args, fs, frame, io>>

NextBleu ==
  \/ BleuOpenTemp
  \/ BleuWriteRef
  \/ BleuCloseTemp
  \/ BleuPopen
  \/ BleuCommunicate
  \/ BleuParse

SpecBleu == InitBleu /\ [][NextBleu]_vars

(***************************************************************************)
(* Properties of bleu_score.                                               *)
(***************************************************************************)
\* the text 'BLEU = X, ... BP=Y, ratio=Z': the start, then somewhere BP=, a
\* comma-free Y and ", ratio="
PatternMatches(out) ==
  /\ out # <<>>
  /\ out[1] = "BLEU = "
  /\ \E p \in 2..Len(out) : \E e \in p..(Len(out) - 1) :
       /\ out[p] = "BP="
       /\ \A k \in (p + 1)..e : ~HasComma(out[k])
       /\ out[e + 1] = ", ratio="

\* the references, one per line
RECURSIVE RefLines(_)
RefLines(refs) ==
  IF refs = <<>> THEN <<>> ELSE refs[1] \o <<"\n">> \o RefLines(Tail(refs))

Started == \E k \in 1..Len(io) : io[k].op = "popen"

Created == \E k \in 1..Len(io) : io[k].op = "mkstemp"

\* C8: the script is started only after every reference was written, one
\* per line, and the temporary file closed; when the script cannot be
\* started or its output does not match the pattern the call raises and
\* returns no triple; once created, the temporary file exists on every path.
C8_BleuTempFileAndFailures ==
  call = "bleu_score" =>
    /\ Started =>
         /\ ~fs.temp.open
         /\ fs.temp.text = RefLines(args.references)
         /\ \E c \in 1..Len(io) :
              /\ io[c].op = "close"
              /\ \A k \in 1..Len(io) :
                   /\ io[k].op = "write" => k < c
                   /\ io[k].op = "popen" => c < k
         /\ Cardinality({k \in 1..Len(io) : io[k].op = "write"}) = Len(args.references)
    /\ (pc = "done" /\ ~fs.script_runs) => (ret.kind = "raise" /\ ~Started)
    /\ (pc = "done" /\ Started /\ ~PatternMatches(frame.output)) =>
         (ret.kind = "raise" /\ ret.value = <<>>)
    /\ Created => fs.temp.exists
    /\ pc = "done" => (Created /\ fs.temp.exists /\ ret.kind # "pending")

\* the script ran on two references and printed text that does not match
C8_Witness ==
  /\ call = "bleu_score"
  /\ pc = "done"
  /\ Len(args.references) = 2
  /\ Started
  /\ ~PatternMatches(frame.output)
  /\ ret.kind = "raise"
  /\ fs.temp.exists
  /\ fs.temp.text = <<"r", "\n", "q", " ", "r", "\n">>

\* the canned output of the specification parses to (24.5, 0.98, 1.01)
BleuParsesCannedOutput ==
  ParseBleu(<<"BLEU = ", "24.5", ",", " 100/100", ",", " ", "BP=", "0.98", ", ratio=", "1.01">>)
    = Return([score |-> 2450, penalty |-> 98, ratio |-> 101])

(***************************************************************************)
(* read_embeddings                                                         *)
(*                                                                         *)
(* A value that may be None is NoneValue or Some(v).  A row of a table     *)
(* carries, beside its values, where they came from: the initial zeros, a  *)
(* row of the embedding file, or a random draw.  Embedding files are well  *)
(* formed: a header of two fields, and rows with as many values as the     *)
(* header says.  The vocabulary paths are the ones get_filenames computes  *)
(* for the same extensions, one per language.                              *)
(***************************************************************************)
NoneValue == [is_none |-> TRUE, v |-> <<>>]

Some(x) == [is_none |-> FALSE, v |-> x]

\* `not embedding_prefix`: None and the empty string
Falsy(prefix) == prefix.is_none \/ prefix.v = <<>>

\* "{}".format(prefix)
PrefixText(prefix) == IF prefix.is_none THEN <<"N", "o", "n", "e">> ELSE prefix.v

\* a variant of line 144 with the target first
ExtensionsTargetFirst(a) == <<a.trg_ext>> \o a.src_ext

\* line 144
Extensions(a) == a.src_ext \o <<a.trg_ext>>

\* line 145
VocabPaths(a) == a.src_vocab \o <<a.trg_vocab>>

\* line 146
VocabSizes(a) == [j \in 1..Len(a.src_ext) |-> a.src_vocab_size] \o <<a.trg_vocab_size>>

Min(x, y) == IF x <= y THEN x ELSE y

\* zip(extensions, vocab_paths, vocab_sizes): as long as the shortest
Zip3(x, y, z) ==
  [j \in 1..Min(Len(x), Min(Len(y), Len(z))) |-> <<x[j], y[j], z[j]>>]

\* line 153
EmbeddingFilename(a, ext) ==
  PathJoin(a.data_dir, PrefixText(a.embedding_prefix) \o <<".">> \o ext)

\* a variant of line 163 that accepts every header
HeaderAlwaysAccepted(dim, size) == TRUE

\* line 163: assert int(size_) == size
HeaderAccepted(dim, size) == dim = size

\* line 164: np.zeros((vocab_size, size))
ZeroRow(size) == [prov |-> "zeros", vec |-> [k \in 1..size |-> 0]]

Zeros(vocab_size, size) == [i \in 1..vocab_size |-> ZeroRow(size)]

\* line 166: dict((line[0], values of line[1:]) for line in lines)
RECURSIVE DictOfRows(_)
DictOfRows(rows) ==
  IF rows = <<>> THEN EmptyDict
  ELSE LET last == rows[Len(rows)]
       IN DictSet(DictOfRows(SubSeq(rows, 1, Len(rows) - 1)), last.word, last.vec)

\* lines 170-174: every (word, index) of the mapping sets row index, from
\* the embedding file or from a random draw; an index outside the table is
\* an IndexError
RECURSIVE FillRows(_, _, _, _, _)
FillRows(table, vocab, words, d, rnd) ==
  IF words = {} THEN [ok |-> TRUE, table |-> table]
  ELSE LET word == CHOOSE w \in words : TRUE
           index == vocab[word]
       IN IF index >= Len(table) THEN [ok |-> FALSE, table |-> <<>>]
          ELSE FillRows(
                 [table EXCEPT ![index + 1] =
                    IF word \in DOMAIN d
                    THEN [prov |-> "copied", vec |-> d[word]]
                    ELSE [prov |-> "random", vec |-> rnd[index]]],
                 vocab, words \ {word}, d, rnd)

Outcome(kind, exc, table, ops) ==
  [kind |-> kind, exc |-> exc, table |-> table, ops |-> ops]

\* a variant of the loop body that loads the vocabulary first
EmbedLanguageVocabularyFirst(a, ext, vocab_path, vocab_size, rnd) ==
  LET filename == EmbeddingFilename(a, ext)
      loaded == initialize_vocabulary(vocab_path)
      stat == VocabIO(vocab_path) \o <<Event("isfile", filename)>>
      opened == stat \o <<Event("read", filename)>>
  IN IF loaded.kind = "raise" THEN Outcome("raise", loaded.exc, <<>>, VocabIO(vocab_path))
     ELSE IF ~FileExists(filename) THEN Outcome("none", "", <<>>, stat)
     ELSE IF ~HeaderAccepted(fs[filename].dim, a.size)
     THEN Outcome("raise", "AssertionError", <<>>, opened)
     ELSE LET vocab == loaded.value.vocab
              filled == FillRows(Zeros(vocab_size, a.size), vocab, DOMAIN vocab,
                                 DictOfRows(fs[filename].rows), rnd)
          IN IF ~filled.ok THEN Outcome("raise", "IndexError", <<>>, opened)
             ELSE Outcome("table", "", filled.table, opened)

\* lines 153-176: the body of the loop for one language
EmbedLanguage(a, ext, vocab_path, vocab_size, rnd) ==
  LET filename == EmbeddingFilename(a, ext)
      stat == <<Event("isfile", filename)>>
      opened == stat \o <<Event("read", filename)>>
  IN IF ~FileExists(filename) THEN Outcome("none", "", <<>>, stat)
     ELSE IF ~HeaderAccepted(fs[filename].dim, a.size)
     THEN Outcome("raise", "AssertionError", <<>>, opened)
     ELSE LET loaded == initialize_vocabulary(vocab_path)
              loading == opened \o VocabIO(vocab_path)
          IN IF loaded.kind = "raise"
             THEN Outcome("raise", loaded.exc, <<>>, loading)
             ELSE LET vocab == loaded.value.vocab
                      filled == FillRows(Zeros(vocab_size, a.size), vocab,
                                         DOMAIN vocab,
                                         DictOfRows(fs[filename].rows), rnd)
                  IN IF ~filled.ok
                     THEN Outcome("raise", "IndexError", <<>>, loading)
                     ELSE Outcome("table", "", filled.table, loading)

\* np.random.uniform(-sqrt(3), sqrt(3), size): the draws the model takes
RandVals == {-1, 1}

RandomVectors(size) == [1..size -> RandVals]

\* the indices whose row the loop fills at random
RandomIndices(a, ext, vocab_path, vocab_size) ==
  LET filename == EmbeddingFilename(a, ext)
  IN IF FileExists(filename) /\ FileExists(vocab_path)
     THEN LET vocab == VocabOf(RevVocabOf(fs[vocab_path].text))
              d == DictOfRows(fs[filename].rows)
          IN {vocab[w] : w \in {x \in DOMAIN vocab : x \notin DOMAIN d}}
     ELSE {}

EmbDataDir == <<"d">>

EmbPrefixes == {NoneValue, Some(<<>>), Some(<<"e">>)}

EmbSrcVocabSizes == {1, 2}

EmbTrgVocabSizes == {2}

EmbSizes == {2}

EmbWord == <<"a">>

\* an embedding file of dimension n with one row, for the word "a"
OneRowFile(n) ==
  EmbeddingFile(n, <<[word |-> EmbWord, vec |-> [k \in 1..n |-> 4 + k]]>>)

EmbFileChoices == {Missing, OneRowFile(2), OneRowFile(3)}

EmbVocabChoices ==
  {Missing,
   TextFile(<<"a", "\n">>),
   TextFile(<<"a", "\n", "b", "\n">>),
   TextFile(<<"a", "\n", " ", "a", "\n">>)}

\* the arguments: the vocabulary paths are those get_filenames computes
EmbArgs(data_dir, src_ext, trg_ext, src_vocab_size, trg_vocab_size, prefix, size) ==
  LET files == get_filenames(
                 [data_dir |-> data_dir, src_ext |-> src_ext, trg_ext |-> trg_ext,
                  src_vocab_size |-> src_vocab_size,
                  trg_vocab_size |-> trg_vocab_size,
                  train_prefix |-> <<"t">>, dev_prefix |-> <<"v">>,
                  multi_task |-> "omitted"])
  IN [data_dir |-> data_dir, src_ext |-> src_ext, trg_ext |-> trg_ext,
      src_vocab_size |-> src_vocab_size, trg_vocab_size |-> trg_vocab_size,
      src_vocab |-> files.src_vocab.items, trg_vocab |-> files.trg_vocab.items[1],
      embedding_prefix |-> prefix, size |-> size]

\* the number of languages, and language j's extension, embedding file and
\* vocabulary file
NumLanguages(a) == Len(a.src_ext) + 1

ExtOf(a, j) == IF j <= Len(a.src_ext) THEN a.src_ext[j] ELSE a.trg_ext

EmbPathOf(a, j) == EmbeddingFilename(a, ExtOf(a, j))

VocabPathOf(a, j) == IF j <= Len(a.src_ext) THEN a.src_vocab[j] ELSE a.trg_vocab

VocabSizeOf(a, j) == IF j <= Len(a.src_ext) THEN a.src_vocab_size ELSE a.trg_vocab_size

\* the files of languages j, j + 1, ...: each extension's embedding file
\* and vocabulary file
RECURSIVE FilesFrom(_, _, _, _)
FilesFrom(a, j, ef, vf) ==
  IF j > NumLanguages(a) THEN EmptyDict
  ELSE (EmbPathOf(a, j) :> ef[ExtOf(a, j)])
         @@ (VocabPathOf(a, j) :> vf[ExtOf(a, j)])
         @@ FilesFrom(a, j + 1, ef, vf)

FileSystems(a) ==
  LET exts == {ExtOf(a, j) : j \in 1..NumLanguages(a)}
  IN {FilesFrom(a, 1, ef, vf) :
        ef \in [exts -> EmbFileChoices], vf \in [exts -> EmbVocabChoices]}

InitEmb ==
  /\ call = "read_embeddings"
  /\ args \in {EmbArgs(EmbDataDir, src_ext, trg_ext, ssize, tsize, prefix, size) :
                 src_ext \in NonEmptySeqsUpTo(SrcExts, MaxSrcExt),
                 trg_ext \in TrgExts,
                 ssize \in EmbSrcVocabSizes, tsize \in EmbTrgVocabSizes,
                 prefix \in EmbPrefixes, size \in EmbSizes}
  /\ fs \in FileSystems(args)
  /\ pc = "call"
  /\ frame = [embeddings |-> <<>>, i |-> 1]
  /\ io = <<>>
  /\ ret = Pending

\* lines 144-150
ReadEmbeddingsEnter ==
  /\ call = "read_embeddings"
  /\ pc = "call"
  /\ IF Falsy(args.embedding_prefix)
     THEN /\ ret' = Return(NoneValue)
          /\ pc' = "done"
     ELSE /\ ret' = ret
          /\ pc' = "loop"
  /\ UNCHANGED <<call, args, fs, frame, io>>

LoopItems == Zip3(Extensions(args), VocabPaths(args), VocabSizes(args))

\* lines 152-176: one pass of the loop
ReadEmbeddingsLoop ==
  /\ call = "read_embeddings"
  /\ pc = "loop"
  /\ frame.i <= Len(LoopItems)
  /\ LET ext == LoopItems[frame.i][1]
         vocab_path == LoopItems[frame.i][2]
         vocab_size == LoopItems[frame.i][3]
     IN \E rnd \in [RandomIndices(args, ext, vocab_path, vocab_size)
                      -> RandomVectors(args.size)] :
          LET out == EmbedLanguage(args, ext, vocab_path, vocab_size, rnd)
          IN /\ io' = io \o out.ops
             /\ IF out.kind = "raise"
                THEN /\ ret' = Raise(out.exc)
                     /\ pc' = "done"
                     /\ frame' = frame
                ELSE /\ ret' = ret
                     /\ pc' = pc
                     /\ frame' = [frame EXCEPT
                          !.i = @ + 1,
                          !.embeddings = Append(@,
                             IF out.kind = "none" THEN NoneValue ELSE Some(out.table))]
  /\ UNCHANGED <<call, args, fs>>

\* line 178
ReadEmbeddingsReturn ==
  /\ call = "read_embeddings"
  /\ pc = "loop"
  /\ frame.i > Len(LoopItems)
  /\ ret' = Return(Some(frame.embeddings))
  /\ pc' = "done"
  /\ UNCHANGED <<call, args, fs, frame, io>>

NextEmb ==
  \/ ReadEmbeddingsEnter
  \/ ReadEmbeddingsLoop
  \/ ReadEmbeddingsReturn

SpecEmb == InitEmb /\ [][NextEmb]_vars

(***************************************************************************)
(* Properties of read_embeddings.                                          *)
(***************************************************************************)
Languages == 1..NumLanguages(args)

PrefixSupplied == ~Falsy(args.embedding_prefix)

EmbExists(j) == FileExists(EmbPathOf(args, j))

DimMatches(j) == fs[EmbPathOf(args, j)].dim = args.size

VocabExists(j) == FileExists(VocabPathOf(args, j))

VocabLines(j) == NumLines(fs[VocabPathOf(args, j)].text)

\* language j stops the call: its embedding file exists and its header is
\* wrong, its vocabulary file is missing, or the vocabulary has more lines
\* than the table has rows
Fatal(j) ==
  /\ EmbExists(j)
  /\ \/ ~DimMatches(j)
     \/ ~VocabExists(j)
     \/ VocabLines(j) > VocabSizeOf(args, j)

EmbDone == call = "read_embeddings" /\ pc = "done"

SetMin(S) == CHOOSE m \in S : \A x \in S : m <= x

\* the words of language j's embedding file, and the values of word w
FileWords(j) ==
  {fs[EmbPathOf(args, j)].rows[k].word : k \in 1..Len(fs[EmbPathOf(args, j)].rows)}

FileVector(j, w) ==
  LET rows == fs[EmbPathOf(args, j)].rows
  IN rows[SetMax({k \in 1..Len(rows) : rows[k].word = w})].vec

\* C5: for a language whose embedding file exists with header dimension N,
\* the table for a vocabulary of V lines has shape (V, N) and every row is
\* copied from the embedding file (the token at that index is in the file)
\* or drawn from [-sqrt(3), sqrt(3)] (it is not); no row keeps its zeros.
C5_EveryRowCopiedOrRandom ==
  (EmbDone /\ ret.kind = "return" /\ PrefixSupplied) =>
    \A j \in Languages :
      (EmbExists(j) /\ DimMatches(j)) =>
        LET table == ret.value.v[j].v
            rev_vocab == RevVocabOf(fs[VocabPathOf(args, j)].text)
        IN /\ ~ret.value.v[j].is_none
           /\ Len(table) = VocabLines(j)
           /\ \A i \in 1..Len(table) :
                /\ Len(table[i].vec) = args.size
                /\ i <= Len(rev_vocab)
                /\ \/ /\ table[i].prov = "copied"
                      /\ rev_vocab[i] \in FileWords(j)
                      /\ table[i].vec = FileVector(j, rev_vocab[i])
                   \/ /\ table[i].prov = "random"
                      /\ rev_vocab[i] \notin FileWords(j)
                      /\ \A k \in 1..args.size : table[i].vec[k] * table[i].vec[k] <= 3

\* C6: with a prefix supplied and no fatal condition the call returns one
\* entry per language, source extensions first and the target last: None
\* where the language's embedding file does not exist, a table where it
\* does; with no prefix supplied the call returns None.
C6_OneEntryPerLanguage ==
  EmbDone =>
    /\ ~PrefixSupplied => (ret.kind = "return" /\ ret.value.is_none)
    /\ (PrefixSupplied /\ \A j \in Languages : ~Fatal(j)) =>
         /\ ret.kind = "return"
         /\ ~ret.value.is_none
         /\ Len(ret.value.v) = Len(args.src_ext) + 1
         /\ \A j \in Languages : ret.value.v[j].is_none <=> ~EmbExists(j)
         /\ \A j \in Languages :
              EmbExists(j) => Len(ret.value.v[j].v) = VocabSizeOf(args, j)

\* two source languages and the target: a table, None, a table
C6_Witness ==
  /\ EmbDone
  /\ PrefixSupplied
  /\ ret.kind = "return"
  /\ Len(ret.value.v) = 3
  /\ EmbExists(1) /\ ~ret.value.v[1].is_none
  /\ ~EmbExists(2) /\ ret.value.v[2].is_none
  /\ EmbExists(3) /\ ~ret.value.v[3].is_none

\* the files of the languages after b that no language up to b shares
LaterPaths(b) ==
  {EmbPathOf(args, k) : k \in {x \in Languages : x > b}}
    \cup {VocabPathOf(args, k) : k \in {x \in Languages : x > b}}

EarlierPaths(b) ==
  {EmbPathOf(args, k) : k \in {x \in Languages : x <= b}}
    \cup {VocabPathOf(args, k) : k \in {x \in Languages : x <= b}}

Mismatched == {j \in Languages : EmbExists(j) /\ ~DimMatches(j)}

\* C7: when a language's embedding file exists with a header dimension other
\* than the expected size, the call fails: no list is returned, the entries
\* built for earlier languages are dropped, the failure at that language is
\* the assertion's, and neither its vocabulary file nor any file of a later
\* language is read.
C7_DimensionMismatchIsFatal ==
  (EmbDone /\ PrefixSupplied /\ Mismatched # {}) =>
    LET b == SetMin(Mismatched)
    IN /\ ret.kind = "raise"
       /\ ret.value = <<>>
       /\ (\A k \in 1..(b - 1) : ~Fatal(k)) =>
            /\ ret.exc = "AssertionError"
            /\ Len(frame.embeddings) = b - 1
       /\ \A k \in 1..Len(io) :
            /\ io[k].path # VocabPathOf(args, b)
            /\ io[k].path \notin LaterPaths(b) \ EarlierPaths(b)

\* the first language gave a table, the second has the wrong dimension, the
\* files of the third exist and are not touched
C7_Witness ==
  /\ EmbDone
  /\ PrefixSupplied
  /\ NumLanguages(args) = 3
  /\ Mismatched = {2}
  /\ EmbExists(3) /\ VocabExists(3)
  /\ ret = Raise("AssertionError")
  /\ Len(frame.embeddings) = 1
  /\ ~frame.embeddings[1].is_none
  /\ \A k \in 1..Len(io) : io[k].path \notin {EmbPathOf(args, 3), VocabPathOf(args, 3)}

IsVocabPath(path) == \E j \in Languages : path = VocabPathOf(args, j)

\* C10: a language's vocabulary file is touched only after its embedding
\* file was found and its header accepted; a language without an embedding
\* file gives None even when its vocabulary file is missing; a missing
\* vocabulary file of a language whose embedding file is present and valid
\* fails the call with the loader's ValueError, and no list is returned.
C10_VocabularyLoadedAfterEmbeddingAccepted ==
  call = "read_embeddings" =>
    /\ \A k \in 1..Len(io) :
         IsVocabPath(io[k].path) =>
           \E j \in Languages :
             /\ io[k].path = VocabPathOf(args, j)
             /\ EmbExists(j)
             /\ DimMatches(j)
             /\ \E m \in 1..(k - 1) :
                  /\ io[m] = Event("read", EmbPathOf(args, j))
                  /\ \E n \in 1..(m - 1) : io[n] = Event("isfile", EmbPathOf(args, j))
    /\ \A j \in 1..Len(frame.embeddings) :
         ~EmbExists(j) => frame.embeddings[j].is_none
    /\ (pc = "done" /\ PrefixSupplied) =>
         \A j \in Languages :
           (EmbExists(j) /\ DimMatches(j) /\ ~VocabExists(j)) =>
             /\ ret.kind = "raise"
             /\ ret.value = <<>>
             /\ (\A k \in 1..(j - 1) : ~Fatal(k)) => ret.exc = "ValueError"

\* the first language has neither file and gave None; the second has a valid
\* embedding file and no vocabulary file
C10_Witness ==
  /\ EmbDone
  /\ PrefixSupplied
  /\ ~EmbExists(1) /\ ~VocabExists(1)
  /\ Len(frame.embeddings) = 1
  /\ frame.embeddings[1].is_none
  /\ EmbExists(2) /\ DimMatches(2) /\ ~VocabExists(2)
  /\ ret = Raise("ValueError")

=============================================================================
